---------------------------- MODULE Spec2Model ----------------------------
(***************************************************************************)
(* Model of src/fetch_oil_prices.py (class ChinaOilPriceAPI).              *)
(*                                                                         *)
(* Texts are sequences of characters (one-character strings).  Chinese     *)
(* text of the source is written in ASCII:                                 *)
(*   "Y"  = the character "元"          "chai","you" = "柴","油"           *)
(*   "zan","wu" = "暂","无" (a value text that is not a number)            *)
(* Error messages are tuples <<prefix, detail>>:                           *)
(*   "HTTP status code" = "HTTP状态码: "   "request timeout" = "请求超时"  *)
(*   "network request failed" = "网络请求失败: "                           *)
(*   "parse exception" = "解析异常: "   "fetch exception" = "抓取异常: "   *)
(*   "no oil price parsed" = "未解析到油价数据"                            *)
(* Time stamps (update_time, retry_after, last_updated) are left out: no   *)
(* decision of the program reads them.                                     *)
(***************************************************************************)
EXTENDS Integers, Sequences, FiniteSets, TLC

VARIABLES
    provinces,      \* self.provinces: the (ordered) mapping name -> code
    pc,             \* position of fetch_all_prices
    idx,            \* index of the province the for loop is at
    all_data,       \* all_data of fetch_all_prices
    success_count,  \* success_count of fetch_all_prices
    province_data,  \* province_data of the current iteration
    report,         \* the value fetch_all_prices returned
    fetched,        \* history: what the network gave for each province
    excepted,       \* history: provinces whose iteration reached line 44
    page,           \* the page a single function is applied to
    result          \* what that function returned

vars == <<provinces, pc, idx, all_data, success_count, province_data,
          report, fetched, excepted, page, result>>

----------------------------------------------------------------------------
(* Bounds *)

MaxProvinces == 3
MaxNodes == 2
MaxTokens == 2

----------------------------------------------------------------------------
(* Generic helpers *)

SeqsUpTo(S, n) == UNION {[1..k -> S] : k \in 0..n}

\* dict assignment d[k] = v
Put(d, k, v) == [x \in (DOMAIN d) \cup {k} |-> IF x = k THEN v ELSE d[x]]

\* dict.get(k, default)
Get(d, k, default) == IF k \in DOMAIN d THEN d[k] ELSE default

EmptyDict == [x \in {} |-> x]

Digits == {"0", "1", "2", "3", "4", "5", "6", "7", "8", "9"}

\* Python's None where a text is expected: a text no page contains
None == <<"<None>">>

\* str.strip()
RECURSIVE LStrip(_)
LStrip(s) == IF s # <<>> /\ Head(s) = " " THEN LStrip(Tail(s)) ELSE s

RECURSIVE RStrip(_)
RStrip(s) ==
    IF s # <<>> /\ s[Len(s)] = " " THEN RStrip(SubSeq(s, 1, Len(s) - 1)) ELSE s

Strip(s) == RStrip(LStrip(s))

\* the longest prefix of s made of characters of set C
RECURSIVE TakeWhile(_, _)
TakeWhile(s, C) ==
    IF s # <<>> /\ Head(s) \in C THEN <<Head(s)>> \o TakeWhile(Tail(s), C)
    ELSE <<>>

\* re.search(r'(\d+)', s).group(1): the first maximal run of digits, or None
RECURSIVE FirstDigits(_)
FirstDigits(s) ==
    IF s = <<>> THEN None
    ELSE IF Head(s) \in Digits THEN TakeWhile(s, Digits)
    ELSE FirstDigits(Tail(s))

----------------------------------------------------------------------------
(* The page: what BeautifulSoup gives for response.text *)

G92 == <<"9", "2">>
G95 == <<"9", "5">>
G98 == <<"9", "8">>
G0 == <<"0">>
Grades == {G92, G95, G98, G0}

Unset == <<"-", "-">>

\* dt texts of a #youjia > dl
Labels == { <<"9", "2", "#">>, <<"9", "5", "#">>, <<"0", "#", "chai", "you">>,
            <<"8", "9", "#">>, <<"chai", "you">> }

\* dd texts of a #youjia > dl
ValueTexts == { <<" ", "7", ".", "8", "Y">>, <<"0", "Y">>, <<"zan", "wu">> }

\* a "#youjia > dl" element; dt or dd is None when select_one finds none
DlNodes == [kind : {"dl"}, dt : Labels \cup {None}, dd : ValueTexts \cup {None}]

\* the (pattern, oil_key) list of lines 96-102, in its order
patterns == << G92, G95, G98, G0, G0 >>

\* An element selected by '.oil-price, .price-item, table tr'.  Its text is
\* abstracted to the set of the five patterns that re.search finds in it
\* and the number they capture: pattern p captures <<val, ".", p>>, so that
\* the captures of different patterns and elements can be told apart.
ElemNodes == [kind : {"elem"}, pats : SUBSET (1..5), val : {"6", "7"}]

PatDigit == << "1", "2", "3", "4", "5" >>

\* match.group(1) of pattern p in element el (re.search found a match)
Group(el, p) == << el.val, ".", PatDigit[p] >>

Nodes == DlNodes \cup ElemNodes

\* Texts that the adjustment parsing reads are sequences of tokens [kw, amt]:
\*   kw = "N"  the words "下次油价"
\*   kw = "D"  a date fragment matching \d+月\d+日\d+时调整
\*   kw = "X"  any other text
\*   kw = "shangtiao" (上调), "xiatiao" (下调), "zhang" (涨), "die" (跌):
\*        the phrase "预计" kw amt "元", amt a run of digits and dots ([\d.]+)
Amounts == { <<"0", ".", "1", "5">>, <<"1", ".", "2", ".", "3">> }
Keywords == {"shangtiao", "xiatiao", "zhang", "die"}
DirTokens == [kw : Keywords, amt : Amounts]
Tok(k) == [kw |-> k, amt |-> <<>>]
Tokens == {Tok("N"), Tok("D"), Tok("X")} \cup DirTokens

\* hasCont: doc.select_one('#youjiaCont') finds an element; divs: the texts
\* of the div elements under it; tail: the text of the rest of the document
PageOf(nodes, hasCont, divs, tail) ==
    [nodes |-> nodes, hasCont |-> hasCont, divs |-> divs, tail |-> tail]

RECURSIVE Concat(_)
Concat(ss) == IF ss = <<>> THEN <<>> ELSE Head(ss) \o Concat(Tail(ss))

\* response.text as the adjustment parsing searches it
Html(pg) == Concat(pg.divs) \o pg.tail

----------------------------------------------------------------------------
(* parse_adjustment_info *)

DigitChars == << "0", "1", "2", "3", "4", "5", "6", "7", "8", "9" >>
DigitVal(c) == (CHOOSE n \in 1..Len(DigitChars) : DigitChars[n] = c) - 1

RECURSIVE DigitsVal(_)
DigitsVal(s) ==
    IF s = <<>> THEN 0
    ELSE DigitsVal(SubSeq(s, 1, Len(s) - 1)) * 10 + DigitVal(s[Len(s)])

\* float() raising ValueError
ValueError == 0 - 1

\* float(s) for s matching [\d.]+, in thousandths; ValueError when s is no
\* number (no digit, or more than one dot)
ToFloat(s) ==
    LET ip == TakeWhile(s, Digits)
        rest == SubSeq(s, Len(ip) + 1, Len(s))
        fp == IF rest = <<>> THEN <<>> ELSE Tail(rest)
        fp3 == SubSeq(fp \o <<"0", "0", "0">>, 1, 3)
    IN  IF Len(ip) + Len(fp) = 0 THEN ValueError
        ELSE IF \E i \in 1..Len(fp) : fp[i] \notin Digits THEN ValueError
        ELSE DigitsVal(ip) * 1000 + DigitsVal(fp3)

\* lines 146-150
StableTrend ==
    [direction |-> "stable", amount |-> 0,
     description |-> [template |-> "jiage wending", desc |-> "", amount |-> 0]]

\* index of the first token of text whose keyword is in K, 0 when none
FirstOf(text, K) ==
    IF \E i \in 1..Len(text) : text[i].kw \in K
    THEN CHOOSE i \in 1..Len(text) :
            /\ text[i].kw \in K
            /\ \A j \in 1..(i - 1) : text[j].kw \notin K
    ELSE 0

\* lines 163-165: re.search(r'下次油价.*?(\d+月\d+日\d+时调整)', html).group(0),
\* <<>> when there is no match (the document is taken to be one line)
HtmlAdjustment(html) ==
    LET starts == {i \in 1..Len(html) :
                     /\ html[i].kw = "N"
                     /\ \E j \in (i + 1)..Len(html) : html[j].kw = "D"}
    IN  IF starts = {} THEN <<>>
        ELSE LET i == CHOOSE a \in starts : \A b \in starts : a <= b
                 j == CHOOSE a \in (i + 1)..Len(html) :
                         /\ html[a].kw = "D"
                         /\ \A b \in (i + 1)..(a - 1) : html[b].kw # "D"
             IN  SubSeq(html, i, j)

\* lines 153-165
AdjustmentText(pg) ==
    LET text1 == IF pg.hasCont /\ Len(pg.divs) >= 2 THEN pg.divs[2] ELSE <<>>
    IN  IF text1 = <<>> THEN HtmlAdjustment(Html(pg)) ELSE text1

\* lines 168-171: the phrase "下次油价" directly followed by the date
\* fragment, <<>> for Python's None
NextAdjustment(text) ==
    IF \E i \in 1..(Len(text) - 1) : text[i].kw = "N" /\ text[i + 1].kw = "D"
    THEN << Tok("N"), Tok("D") >>
    ELSE <<>>

\* lines 183-190
TrendOf(kw, amount) ==
    LET direction == IF kw \in {"shangtiao", "zhang"} THEN "up" ELSE "down"
        trend_desc == IF direction = "up" THEN "shangtiao" ELSE "xiatiao"
    IN  [direction |-> direction, amount |-> amount,
         description |-> [template |-> "yuji{desc}{amount}yuan/sheng",
                          desc |-> trend_desc, amount |-> amount]]

\* lines 199-206: what the except clause returns
AdjustmentExcept == [next_adjustment |-> <<>>, trend |-> StableTrend]

\* lines 143-206
parse_adjustment_info(pg) ==
    LET text == AdjustmentText(pg)
        next_adjustment == NextAdjustment(text)
        m1 == FirstOf(text, {"shangtiao", "xiatiao"})     \* line 174
        m2 == FirstOf(text, {"zhang", "die"})             \* line 177
    IN  IF m1 = 0 /\ m2 # 0
        THEN \* line 180 makes trend_match a tuple; line 182 calls
             \* .groups() on it: AttributeError, caught at line 197
             AdjustmentExcept
        ELSE IF m1 # 0
        THEN IF ToFloat(text[m1].amt) = ValueError
             THEN AdjustmentExcept      \* float() raises at line 184
             ELSE [next_adjustment |-> next_adjustment,
                   trend |-> TrendOf(text[m1].kw, ToFloat(text[m1].amt))]
        ELSE [next_adjustment |-> next_adjustment, trend |-> StableTrend]

----------------------------------------------------------------------------
(* fetch_province_price *)

Msg(prefix, status, detail) ==
    [prefix |-> prefix, status |-> status, detail |-> detail]

\* lines 208-220
create_error_data(name, code, error_message) ==
    [status |-> "error", name |-> name, code |-> code,
     error |-> [code |-> "FETCH_FAILED", message |-> error_message]]

\* lines 76-88, over the nodes in document order
RECURSIVE Method1(_, _)
Method1(nodes, entries) ==
    IF nodes = <<>> THEN entries
    ELSE LET dl == Head(nodes)
         IN  IF dl.kind = "dl" /\ dl.dt # None /\ dl.dd # None
             THEN LET oil_type == Strip(dl.dt)
                      price_text == Strip(dl.dd)
                      oil_key == FirstDigits(oil_type)
                  IN  IF oil_key # None
                      THEN Method1(Tail(nodes), Put(entries, oil_key, price_text))
                      ELSE Method1(Tail(nodes), entries)
             ELSE Method1(Tail(nodes), entries)

\* lines 104-107, patterns p..5 on one element
RECURSIVE ScanPatterns(_, _, _)
ScanPatterns(el, p, entries) ==
    IF p > Len(patterns) THEN entries
    ELSE LET oil_key == patterns[p]
         IN  IF p \in el.pats /\ oil_key \notin DOMAIN entries
             THEN ScanPatterns(el, p + 1,
                               Put(entries, oil_key, Group(el, p) \o <<"Y">>))
             ELSE ScanPatterns(el, p + 1, entries)

\* lines 92-107, over the nodes in document order
RECURSIVE Method2(_, _)
Method2(nodes, entries) ==
    IF nodes = <<>> THEN entries
    ELSE IF Head(nodes).kind = "elem"
    THEN Method2(Tail(nodes), ScanPatterns(Head(nodes), 1, entries))
    ELSE Method2(Tail(nodes), entries)

\* a slip that would try the patterns whatever the structure gave
UseMethod2Always(entries) == TRUE

\* line 91: if not entries
UseMethod2(entries) == entries = EmptyDict

\* a slip that would run the two methods in the other order
EntriesPatternsFirst(pg) ==
    LET found == Method2(pg.nodes, EmptyDict)
    IN  IF found = EmptyDict THEN Method1(pg.nodes, found) ELSE found

\* lines 72-107
Entries(pg) ==
    LET found == Method1(pg.nodes, EmptyDict)
    IN  IF UseMethod2(found) THEN Method2(pg.nodes, found) ELSE found

\* lines 113-118
Prices(entries) == [g \in Grades |-> Get(entries, g, Unset)]

HttpOk == 200

\* lines 65-134: the response arrived
ParseResponse(name, code, response) ==
    IF response.status_code # HttpOk
    THEN create_error_data(name, code,
                           Msg("HTTP status code", response.status_code, ""))
    ELSE LET entries == Entries(response.page)
             adjustment_info == parse_adjustment_info(response.page)
             prices == Prices(entries)
             valid_prices == \E g \in Grades : prices[g] # Unset
         IN  IF ~valid_prices
             THEN create_error_data(name, code,
                                    Msg("no oil price parsed", 0, ""))
             ELSE [status |-> "success", name |-> name,
                   code |-> code, prices |-> prices,
                   unit |-> "yuan/sheng",
                   next_adjustment |-> adjustment_info.next_adjustment,
                   trend |-> adjustment_info.trend]

\* the classes an exception is an instance of (requests.exceptions)
Ancestors(exc) ==
    CASE exc = "ReadTimeout" ->
            {"ReadTimeout", "Timeout", "RequestException", "Exception"}
      [] exc = "ConnectTimeout" ->
            {"ConnectTimeout", "ConnectionError", "Timeout",
             "RequestException", "Exception"}
      [] exc = "ConnectionError" ->
            {"ConnectionError", "RequestException", "Exception"}
      [] OTHER -> {exc, "Exception"}

Exceptions == {"ReadTimeout", "ConnectTimeout", "ConnectionError", "AttributeError"}

\* a slip that would put the general clause first
ExceptClausesGeneralFirst == << "RequestException", "Timeout", "Exception" >>

\* lines 136, 138, 140: the except clauses in their order
ExceptClauses == << "Timeout", "RequestException", "Exception" >>

\* lines 136-141: the first clause the exception is an instance of
HandleException(name, code, exc) ==
    LET i == CHOOSE a \in 1..Len(ExceptClauses) :
                /\ ExceptClauses[a] \in Ancestors(exc)
                /\ \A b \in 1..(a - 1) : ExceptClauses[b] \notin Ancestors(exc)
        clause == ExceptClauses[i]
        msg == CASE clause = "Timeout" -> Msg("request timeout", 0, "")
                 [] clause = "RequestException" ->
                        Msg("network request failed", 0, exc)
                 [] OTHER -> Msg("parse exception", 0, exc)
    IN  create_error_data(name, code, msg)

\* What one call of fetch_province_price meets: requests.get returns a
\* response, or an exception is raised inside the try of lines 56-134
Response(status_code, pg) ==
    [kind |-> "response", status_code |-> status_code, page |-> pg, exc |-> ""]
Raised(exc) ==
    [kind |-> "raise", status_code |-> 0, page |-> PageOf(<<>>, FALSE, <<>>, <<>>),
     exc |-> exc]

\* lines 54-141
fetch_province_price(name, code, net) ==
    IF net.kind = "raise"
    THEN HandleException(name, code, net.exc)
    ELSE ParseResponse(name, code, net)

----------------------------------------------------------------------------
(* _create_final_output *)

\* a slip that would cut the digits off instead of rounding
Truncate(num, den) == num \div den

\* round(num / den, 0) as Python rounds: to the nearest integer, a tie to
\* the even one (num >= 0, den > 0)
RoundHalfEven(num, den) ==
    LET q == num \div den
        r == num % den
    IN  IF 2 * r < den THEN q
        ELSE IF 2 * r > den THEN q + 1
        ELSE IF q % 2 = 0 THEN q ELSE q + 1

\* the ndigits argument of round() at line 238
RateDigits == 2

RECURSIVE Pow10(_)
Pow10(n) == IF n = 0 THEN 1 ELSE 10 * Pow10(n - 1)

\* line 238: round(success_count / total * 100, 2), as a number
\* of units of 10^-RateDigits (6667 is 66.67)
success_rate(count, total) ==
    RoundHalfEven(count * 100 * Pow10(RateDigits), total)

\* a slip that would compare with <= at line 226
FinalStatusInclusive(count, total) ==
    IF 0 < count /\ count <= total
    THEN "partial_success"
    ELSE IF count > 0 THEN "success" ELSE "error"

\* lines 225-227
FinalStatus(count, total) ==
    IF 0 < count /\ count < total
    THEN "partial_success"
    ELSE IF count > 0 THEN "success" ELSE "error"

\* lines 222-241
create_final_output(provs, data, count) ==
    LET total_provinces == Len(provs)
    IN  [status |-> FinalStatus(count, total_provinces),
         data_source |-> "www.qiyoujiage.com",
         version |-> "1.0",
         statistics |-> [total_provinces |-> total_provinces,
                         success_count |-> count,
                         error_count |-> total_provinces - count,
                         success_rate |-> success_rate(count, total_provinces)],
         data |-> data]

----------------------------------------------------------------------------
(* fetch_all_prices *)

Name(i) == << "province", i >>
Code(i) == << "code", i >>

NoData == [status |-> "none"]

GoodPage ==
    PageOf(<< [kind |-> "dl", dt |-> <<"9", "2", "#">>,
               dd |-> <<" ", "7", ".", "8", "Y">>] >>, FALSE, <<>>, <<>>)
EmptyPage == PageOf(<<>>, FALSE, <<>>, <<>>)
PatternPage ==
    PageOf(<< [kind |-> "elem", pats |-> {1, 4}, val |-> "7"] >>,
           TRUE, << <<Tok("X")>>, <<Tok("N"), Tok("D")>> >>, <<>>)

\* what the network can give for one province
NetResults ==
    {Response(HttpOk, pg) : pg \in {GoodPage, EmptyPage, PatternPage}}
        \cup {Response(404, EmptyPage), Response(500, GoodPage)}
        \cup {Raised(exc) : exc \in Exceptions}

province_name == provinces[idx].name
province_code == provinces[idx].code

\* line 27 finds another item; line 28 prints.  A print writes to stdout and
\* raises OSError when the write fails; this one is outside the try.
LoopNext ==
    /\ pc = "loop"
    /\ idx <= Len(provinces)
    /\ \E printFails \in BOOLEAN :
          pc' = IF printFails THEN "raised" ELSE "fetch"
    /\ UNCHANGED <<provinces, idx, all_data, success_count, province_data,
                   report, fetched, excepted, page, result>>

\* a slip that would not store the result
StoreNothing(data, name, value) == data

\* lines 32 and 46: all_data[province_name] = ...
Store(data, name, value) == Put(data, name, value)

\* lines 31-32; fetch_province_price catches every Exception itself
Fetch ==
    /\ pc = "fetch"
    /\ \E net \in NetResults :
          /\ province_data' =
                fetch_province_price(province_name, province_code, net)
          /\ fetched' = Put(fetched, province_name, net)
    /\ all_data' = Store(all_data, province_name, province_data')
    /\ pc' = "tally"
    /\ UNCHANGED <<provinces, idx, success_count, report, excepted, page, result>>

\* lines 34-42: the count, then the prints of lines 36-40 or of line 42,
\* inside the try
Tally ==
    /\ pc = "tally"
    /\ success_count' = IF province_data.status = "success"
                        THEN success_count + 1 ELSE success_count
    /\ \E printFails \in BOOLEAN :
          pc' = IF printFails THEN "except" ELSE "sleep"
    /\ UNCHANGED <<provinces, idx, all_data, province_data, report, fetched,
                   excepted, page, result>>

\* lines 44-47: the except clause, whose own print is not guarded
Except ==
    /\ pc = "except"
    /\ all_data' = Store(all_data, province_name,
                         create_error_data(province_name, province_code,
                                           Msg("fetch exception", 0, "OSError")))
    /\ excepted' = excepted \cup {province_name}
    /\ \E printFails \in BOOLEAN :
          pc' = IF printFails THEN "raised" ELSE "sleep"
    /\ UNCHANGED <<provinces, idx, success_count, province_data, report,
                   fetched, page, result>>

\* line 50, and back to line 27
Sleep ==
    /\ pc = "sleep"
    /\ idx' = idx + 1
    /\ pc' = "loop"
    /\ UNCHANGED <<provinces, all_data, success_count, province_data, report,
                   fetched, excepted, page, result>>

\* line 52: the loop is over
Return ==
    /\ pc = "loop"
    /\ idx > Len(provinces)
    /\ report' = create_final_output(provinces, all_data, success_count)
    /\ pc' = "done"
    /\ UNCHANGED <<provinces, idx, all_data, success_count, province_data,
                   fetched, excepted, page, result>>

\* lines 16-25: the mapping is loaded, fetch_all_prices starts
Init ==
    /\ \E n \in 1..MaxProvinces :
          provinces = [i \in 1..n |-> [name |-> Name(i), code |-> Code(i)]]
    /\ pc = "loop"
    /\ idx = 1
    /\ all_data = EmptyDict
    /\ success_count = 0
    /\ province_data = NoData
    /\ report = NoData
    /\ fetched = EmptyDict
    /\ excepted = {}
    /\ page = EmptyPage
    /\ result = NoData

Next == LoopNext \/ Fetch \/ Tally \/ Except \/ Sleep \/ Return

Spec == Init /\ [][Next]_vars

----------------------------------------------------------------------------
(* fetch_province_price and parse_adjustment_info, each applied to every page *)

Idle ==
    /\ provinces = << [name |-> Name(1), code |-> Code(1)] >>
    /\ pc = "idle"
    /\ idx = 1
    /\ all_data = EmptyDict
    /\ success_count = 0
    /\ province_data = NoData
    /\ report = NoData
    /\ fetched = EmptyDict
    /\ excepted = {}
    /\ result = NoData

runVars == <<provinces, pc, idx, all_data, success_count, province_data,
             report, fetched, excepted>>

ExtractPages ==
    {PageOf(nodes, FALSE, <<>>, <<>>) : nodes \in SeqsUpTo(Nodes, MaxNodes)}

InitExtract == Idle /\ page \in ExtractPages

ExtractStep ==
    /\ result = NoData
    /\ result' = fetch_province_price(province_name, province_code,
                                      Response(HttpOk, page))
    /\ UNCHANGED <<runVars, page>>

SpecExtract == InitExtract /\ [][ExtractStep]_vars

Shapes ==
    {sh \in [hasCont : BOOLEAN, n : 0..2, l1 : 0..MaxTokens,
             l2 : 0..MaxTokens, lt : 0..MaxTokens] :
        /\ sh.l1 + sh.l2 + sh.lt <= MaxTokens
        /\ (sh.n < 1 => sh.l1 = 0)
        /\ (sh.n < 2 => sh.l2 = 0)
        /\ (~sh.hasCont => sh.n = 0)}

PagesOf(sh) ==
    {PageOf(<<>>, sh.hasCont, SubSeq(<<a, b>>, 1, sh.n), t) :
        a \in [1..sh.l1 -> Tokens], b \in [1..sh.l2 -> Tokens],
        t \in [1..sh.lt -> Tokens]}

AdjustPages == UNION {PagesOf(sh) : sh \in Shapes}

InitAdjust == Idle /\ page \in AdjustPages

AdjustStep ==
    /\ result = NoData
    /\ result' = parse_adjustment_info(page)
    /\ UNCHANGED <<runVars, page>>

SpecAdjust == InitAdjust /\ [][AdjustStep]_vars

----------------------------------------------------------------------------
(* Properties of fetch_all_prices (specification Spec) *)

ProvinceNames == {provinces[i].name : i \in 1..Len(provinces)}

\* C1: when fetch_all_prices returns, the data of the report has exactly the
\* names of the provinces as keys, and every entry has status success or
\* error.
C1_Completeness ==
    pc = "done" =>
        /\ DOMAIN report.data = ProvinceNames
        /\ \A n \in DOMAIN report.data :
              report.data[n].status \in {"success", "error"}

\* a returned run of at least two provinces with a success, a failed fetch
\* and an exception caught by the loop
C1_Witness ==
    /\ pc = "done"
    /\ Len(provinces) >= 2
    /\ excepted # {}
    /\ \E n \in DOMAIN report.data : report.data[n].status = "success"
    /\ \E n \in DOMAIN fetched : fetched[n].kind = "raise"

\* C2: no failure met while one province is processed ends the run with an
\* exception, and every other province whose fetch and extraction succeed
\* is recorded as success.
C2_Isolation ==
    /\ pc # "raised"
    /\ pc = "done" =>
          \A i \in 1..Len(provinces) :
              LET n == provinces[i].name
                  own == fetch_province_price(n, provinces[i].code, fetched[n])
              IN  (own.status = "success" /\ n \notin excepted)
                      => report.data[n] = own

\* C3: the status of the report is error exactly when the success count is
\* zero, success exactly when the error count is zero, and partial_success
\* in every other case.
C3_StatusFromCounts ==
    pc = "done" =>
        LET st == report.statistics
        IN  /\ report.status \in {"success", "partial_success", "error"}
            /\ (report.status = "error") <=> (st.success_count = 0)
            /\ (report.status = "success") <=> (st.error_count = 0)
            /\ (report.status = "partial_success") <=>
                  (st.success_count # 0 /\ st.error_count # 0)

\* a returned run of at least two provinces, some recorded as success and
\* some as error
C3_Witness ==
    /\ pc = "done"
    /\ Len(provinces) >= 2
    /\ report.status = "partial_success"
    /\ \E n \in DOMAIN report.data : report.data[n].status = "success"
    /\ \E n \in DOMAIN report.data : report.data[n].status = "error"

\* C4: in the report, success_count + error_count = total, total is the
\* number of provinces, success_count is the number of entries with status
\* success and error_count the number of entries with status error.
C4_CountsMatchData ==
    pc = "done" =>
        LET st == report.statistics
            with(s) == {n \in DOMAIN report.data : report.data[n].status = s}
        IN  /\ st.success_count + st.error_count = st.total_provinces
            /\ st.total_provinces = Cardinality(ProvinceNames)
            /\ st.success_count = Cardinality(with("success"))
            /\ st.error_count = Cardinality(with("error"))

\* C5 as stated: the success rate is success_count / total * 100 rounded to
\* one decimal place (success_rate counts hundredths).
C5_RateOneDecimal ==
    pc = "done" =>
        LET st == report.statistics
            diff == st.success_rate * st.total_provinces
                        - st.success_count * 10000
        IN  /\ st.success_rate % 10 = 0
            /\ diff <= 5 * st.total_provinces
            /\ -diff <= 5 * st.total_provinces

\* C5 as amended: the success rate is success_count / total * 100 rounded
\* to two decimal places: it is within half a hundredth of the quotient.
C5_RateTwoDecimals ==
    pc = "done" =>
        LET st == report.statistics
            diff == st.success_rate * st.total_provinces
                        - st.success_count * 10000
        IN  /\ 2 * diff <= st.total_provinces
            /\ -2 * diff <= st.total_provinces

\* two successes out of three provinces: the rate is 66.67
C5_Witness ==
    /\ pc = "done"
    /\ report.statistics.total_provinces = 3
    /\ report.statistics.success_count = 2
    /\ report.statistics.success_rate = 6667

\* C7: a response whose status is not 200 is recorded as an error carrying
\* that status whatever its body holds; a timeout as the timeout error,
\* also when it is a connection error too; any other request failure as
\* the network error.
C7_FetchFailureKinds ==
    pc = "tally" =>
        LET net == fetched[province_name]
            d == province_data
            anc == Ancestors(net.exc)
        IN  /\ (net.kind = "response" /\ net.status_code # HttpOk) =>
                  /\ d.status = "error"
                  /\ d.error.message.prefix = "HTTP status code"
                  /\ d.error.message.status = net.status_code
            /\ (net.kind = "raise" /\ "Timeout" \in anc) =>
                  /\ d.status = "error"
                  /\ d.error.message.prefix = "request timeout"
            /\ (net.kind = "raise" /\ "Timeout" \notin anc
                    /\ "RequestException" \in anc) =>
                  /\ d.status = "error"
                  /\ d.error.message.prefix = "network request failed"
                  /\ d.error.message.detail = net.exc

\* fetch_province_price has just handled a connect timeout, which is a
\* Timeout and a ConnectionError
C7_Witness ==
    /\ pc = "tally"
    /\ fetched[province_name].kind = "raise"
    /\ fetched[province_name].exc = "ConnectTimeout"
    /\ province_data.status = "error"

----------------------------------------------------------------------------
(* Properties of fetch_province_price (specification SpecExtract) *)

\* node is a #youjia > dl that gives a value for key k
IsDlFor(node, k) ==
    /\ node.kind = "dl"
    /\ node.dt # None
    /\ node.dd # None
    /\ FirstDigits(Strip(node.dt)) = k

\* node is a #youjia > dl that gives a value for some key
IsDlEntry(node) ==
    /\ node.kind = "dl"
    /\ node.dt # None
    /\ node.dd # None
    /\ FirstDigits(Strip(node.dt)) # None

\* the patterns of grade g that element node matches
MatchesOf(node, g) ==
    IF node.kind = "elem"
    THEN {p \in node.pats : patterns[p] = g}
    ELSE {}

ReportedPrice(g) ==
    IF result.status = "success" THEN result.prices[g] ELSE Unset

\* the first decimal-looking part of a text, as a number of thousandths;
\* ValueError when there is none or it is no number
RECURSIVE FirstNumber(_)
FirstNumber(s) ==
    IF s = <<>> THEN ValueError
    ELSE IF Head(s) \in Digits \cup {"."}
         THEN ToFloat(TakeWhile(s, Digits \cup {"."}))
         ELSE FirstNumber(Tail(s))

\* C6: after a fetch with status 200 the outcome is success if and only if
\* one of the four grades has a price that parses to a number above zero.
C6_SuccessIffPositivePrice ==
    result # NoData =>
        ((result.status = "success") <=>
            \E g \in Grades :
                /\ g \in DOMAIN Entries(page)
                /\ FirstNumber(Entries(page)[g]) > 0)

\* C8: when the structured lookup gives a value for a grade (the last
\* #youjia > dl whose label holds the grade's number), that value is the
\* price reported for the grade.
C8_StructuredWins ==
    result # NoData =>
        \A g \in Grades : \A i \in 1..Len(page.nodes) :
            (/\ IsDlFor(page.nodes[i], g)
             /\ \A j \in (i + 1)..Len(page.nodes) : ~IsDlFor(page.nodes[j], g))
                => /\ result.status = "success"
                   /\ result.prices[g] = Strip(page.nodes[i].dd)

\* the page gives grade 92 by structure and by pattern
C8_Witness ==
    /\ result # NoData
    /\ result.status = "success"
    /\ \E i \in 1..Len(page.nodes) : IsDlFor(page.nodes[i], G92)
    /\ \E i \in 1..Len(page.nodes) : MatchesOf(page.nodes[i], G92) # {}

\* the first match of the patterns of grade g: the first element, in
\* document order, that one of them matches, and the first of them in it
FirstMatch(g) ==
    LET i == CHOOSE a \in 1..Len(page.nodes) :
                /\ MatchesOf(page.nodes[a], g) # {}
                /\ \A b \in 1..(a - 1) : MatchesOf(page.nodes[b], g) = {}
        ps == MatchesOf(page.nodes[i], g)
        p == CHOOSE a \in ps : \A b \in ps : a <= b
    IN  Group(page.nodes[i], p) \o <<"Y">>

HasMatch(g) == \E i \in 1..Len(page.nodes) : MatchesOf(page.nodes[i], g) # {}
HasDl(g) == \E i \in 1..Len(page.nodes) : IsDlFor(page.nodes[i], g)
HasDlEntry == \E i \in 1..Len(page.nodes) : IsDlEntry(page.nodes[i])

\* C9 as stated: for every grade the structured lookup gives nothing for,
\* the first match of the grade's patterns is its price, whatever the
\* structured lookup gave for other labels.
C9_FallbackPerGrade ==
    result # NoData =>
        \A g \in Grades :
            (~HasDl(g) /\ HasMatch(g)) => ReportedPrice(g) = FirstMatch(g)

\* C9 as amended: the patterns are tried only when the structured lookup
\* gives no entry at all; then the first match of a grade's patterns is its
\* price; when the structured lookup gives any entry, a grade it gives
\* nothing for is reported unset.
C9_FallbackWhenNoEntry ==
    result # NoData =>
        \A g \in Grades :
            ~HasDl(g) =>
                ReportedPrice(g) =
                    IF ~HasDlEntry /\ HasMatch(g) THEN FirstMatch(g) ELSE Unset

\* the structure gives grade 95 only and a pattern matches grade 92, which
\* is reported unset
C9_Witness ==
    /\ result # NoData
    /\ result.status = "success"
    /\ HasDl(G95)
    /\ ~HasDl(G92)
    /\ HasMatch(G92)
    /\ result.prices[G92] = Unset

----------------------------------------------------------------------------
(* Properties of parse_adjustment_info (specification SpecAdjust) *)

\* the directional phrases of a text whose amount is a number
Directional(text) ==
    {i \in 1..Len(text) :
        text[i].kw \in Keywords /\ ToFloat(text[i].amt) # ValueError}

\* C10: when the adjustment text holds a directional phrase, the trend
\* returned is that of such a phrase (up for 上调 and 涨, down for 下调 and
\* 跌, its amount, the description made of both), the next adjustment
\* phrase of the text is returned with it, and the stable default is
\* returned only when the text holds no directional phrase.
C10_DirectionalPhrase ==
    result # NoData =>
        LET text == AdjustmentText(page)
        IN  /\ Directional(text) # {} =>
                  /\ \E i \in Directional(text) :
                        LET up == text[i].kw \in {"shangtiao", "zhang"}
                            m == ToFloat(text[i].amt)
                        IN  /\ result.trend.direction =
                                  IF up THEN "up" ELSE "down"
                            /\ result.trend.amount = m
                            /\ result.trend.description.desc =
                                  IF up THEN "shangtiao" ELSE "xiatiao"
                            /\ result.trend.description.amount = m
                  /\ result.next_adjustment = NextAdjustment(text)
            /\ result.trend = StableTrend => Directional(text) = {}

====
